---- MODULE Spec2Model ----
(***************************************************************************)
(* Startup of the Jieba service (koishi-plugin-jieba): Jieba.start(),      *)
(* getNativeBinding(), isMusl(), handleFile() and extract().               *)
(*                                                                         *)
(* Each service instance runs start() as a sequence of awaited steps; the  *)
(* instances share the process environment (platform, arch) and the        *)
(* install directory on disk.                                              *)
(***************************************************************************)
EXTENDS Integers, Sequences, FiniteSets, TLC

\* ---------------------------------------------------------------- bounds
\* total number of start() calls over all instances
MaxStarts == 3

\* service instances pointed at the same install directory
Instances == {1, 2}

\* ------------------------------------------------------- the environment
\* values of process.platform / process.arch ("plan9", "mips" stand for
\* every value the code does not list)
Platforms == {"android", "win32", "darwin", "freebsd", "linux", "plan9"}
Archs == {"x64", "ia32", "arm64", "arm", "mips"}

NONE == "none"

\* state of a file on disk
FileStates == {"absent", "partial", "complete"}

\* the message the native module throws when load() is called twice
AlreadyLoadedMessage == "Jieba was loaded, could not load again"

\* messages nativeBinding.load() may throw
LoadMessages ==
  {AlreadyLoadedMessage, "already loaded", "jieba was loaded, could not load again",
   "Failed to load dict"}

\* ------------------------------------------------------------------ isMusl
\* hasReport: process.report.getReport is a function
\* glibcVersionRuntime: report.header.glibcVersionRuntime is truthy
\* lddReadable: `which ldd` succeeded and the file could be read
\* lddHasMusl: the ldd file contains 'musl'
\* (fields isMusl() does not read in an environment are FALSE)
ProbeEnvs ==
  {in \in [hasReport : BOOLEAN, glibcVersionRuntime : BOOLEAN,
           lddReadable : BOOLEAN, lddHasMusl : BOOLEAN] :
     /\ in.hasReport => ~in.lddReadable
     /\ ~in.hasReport => ~in.glibcVersionRuntime
     /\ in.lddHasMusl => in.lddReadable}

\* a process whose report has no glibc field and that has no ldd
\* (every platform other than linux)
NoGlibcEnv ==
  [hasReport |-> TRUE, glibcVersionRuntime |-> FALSE,
   lddReadable |-> FALSE, lddHasMusl |-> FALSE]

isMuslFlipped(in) ==
  IF ~in.hasReport
    THEN IF in.lddReadable THEN in.lddHasMusl ELSE TRUE
    ELSE in.glibcVersionRuntime

isMusl(in) ==
  IF ~in.hasReport
    THEN IF in.lddReadable THEN in.lddHasMusl ELSE TRUE
    ELSE ~in.glibcVersionRuntime

\* -------------------------------------------------- platform resolution
\* the switch of getNativeBinding; NONE stands for `throw new
\* UnsupportedError(...)`.  musl is the value isMusl() returns, consulted
\* only in the two linux branches that call it.
resolveNodeNameNoDefault(p, a, musl) ==
  CASE p = "android" ->
         (CASE a = "arm64" -> "jieba.android-arm64"
            [] a = "arm" -> "jieba.android-arm-eabi"
            [] OTHER -> NONE)
    [] p = "win32" ->
         (CASE a = "x64" -> "jieba.win32-x64-msvc"
            [] a = "ia32" -> "jieba.win32-ia32-msvc"
            [] a = "arm64" -> "jieba.win32-arm64-msvc"
            [] OTHER -> NONE)
    [] p = "darwin" ->
         (CASE a = "x64" -> "jieba.darwin-x64"
            [] a = "arm64" -> "jieba.darwin-arm64"
            [] OTHER -> NONE)
    [] p = "freebsd" -> "jieba.freebsd-x64"
    [] p = "linux" ->
         (CASE a = "x64" ->
                 IF musl THEN "jieba.linux-x64-musl" ELSE "jieba.linux-x64-gnu"
            [] a = "arm64" ->
                 IF musl THEN "jieba.linux-arm64-musl" ELSE "jieba.linux-arm64-gnu"
            [] a = "arm" -> "jieba.linux-arm-gnueabihf"
            [] OTHER -> NONE)
    [] OTHER -> NONE

resolveNodeNameFallback(p, a, musl) ==
  CASE p = "android" ->
         (CASE a = "arm64" -> "jieba.android-arm64"
            [] a = "arm" -> "jieba.android-arm-eabi"
            [] OTHER -> NONE)
    [] p = "win32" ->
         (CASE a = "x64" -> "jieba.win32-x64-msvc"
            [] a = "ia32" -> "jieba.win32-ia32-msvc"
            [] a = "arm64" -> "jieba.win32-arm64-msvc"
            [] OTHER -> NONE)
    [] p = "darwin" ->
         (CASE a = "x64" -> "jieba.darwin-x64"
            [] a = "arm64" -> "jieba.darwin-arm64"
            [] OTHER -> NONE)
    [] p = "freebsd" ->
         IF a # "x64" THEN NONE ELSE "jieba.freebsd-x64"
    [] p = "linux" ->
         (CASE a = "x64" ->
                 IF musl THEN "jieba.linux-x64-musl" ELSE "jieba.linux-x64-gnu"
            [] a = "arm64" ->
                 IF musl THEN "jieba.linux-arm64-musl" ELSE "jieba.linux-arm64-gnu"
            [] a = "arm" -> "jieba.linux-arm-gnueabihf"
            [] OTHER -> NONE)
    [] OTHER -> "jieba.linux-x64-gnu"

resolveNodeName(p, a, musl) ==
  CASE p = "android" ->
         (CASE a = "arm64" -> "jieba.android-arm64"
            [] a = "arm" -> "jieba.android-arm-eabi"
            [] OTHER -> NONE)
    [] p = "win32" ->
         (CASE a = "x64" -> "jieba.win32-x64-msvc"
            [] a = "ia32" -> "jieba.win32-ia32-msvc"
            [] a = "arm64" -> "jieba.win32-arm64-msvc"
            [] OTHER -> NONE)
    [] p = "darwin" ->
         (CASE a = "x64" -> "jieba.darwin-x64"
            [] a = "arm64" -> "jieba.darwin-arm64"
            [] OTHER -> NONE)
    [] p = "freebsd" ->
         IF a # "x64" THEN NONE ELSE "jieba.freebsd-x64"
    [] p = "linux" ->
         (CASE a = "x64" ->
                 IF musl THEN "jieba.linux-x64-musl" ELSE "jieba.linux-x64-gnu"
            [] a = "arm64" ->
                 IF musl THEN "jieba.linux-arm64-musl" ELSE "jieba.linux-arm64-gnu"
            [] a = "arm" -> "jieba.linux-arm-gnueabihf"
            [] OTHER -> NONE)
    [] OTHER -> NONE

\* the table of the later revision of getNativeBinding, keyed by platform
\* and arch; a missing key is NONE
platformArchMap(musl) ==
  [p \in Platforms |-> [a \in Archs |->
    CASE p = "android" /\ a = "arm64" -> "jieba.android-arm64"
      [] p = "android" /\ a = "arm" -> "jieba.android-arm-eabi"
      [] p = "win32" /\ a = "x64" -> "jieba.win32-x64-msvc"
      [] p = "win32" /\ a = "ia32" -> "jieba.win32-ia32-msvc"
      [] p = "win32" /\ a = "arm64" -> "jieba.win32-arm64-msvc"
      [] p = "darwin" /\ a = "x64" -> "jieba.darwin-x64"
      [] p = "darwin" /\ a = "arm64" -> "jieba.darwin-arm64"
      [] p = "freebsd" /\ a = "x64" -> "jieba.freebsd-x64"
      [] p = "linux" /\ a = "x64" ->
           IF musl THEN "jieba.linux-x64-musl" ELSE "jieba.linux-x64-gnu"
      [] p = "linux" /\ a = "arm64" ->
           IF musl THEN "jieba.linux-arm64-musl" ELSE "jieba.linux-arm64-gnu"
      [] p = "linux" /\ a = "arm" -> "jieba.linux-arm-gnueabihf"
      [] OTHER -> NONE]]

\* ------------------------------------------------------------ the errors
\* class, msg: the JavaScript class and message of the value start()
\* rejects with; origin: the step of start() in which the failure happened;
\* raised: the class of the value first thrown there
NoError == [class |-> NONE, msg |-> "", origin |-> NONE, raised |-> NONE]

UnsupportedError(origin) ==
  [class |-> "UnsupportedError", msg |-> "Unsupported", origin |-> origin,
   raised |-> "UnsupportedError"]

DownloadError(msg, origin) ==
  [class |-> "DownloadError", msg |-> msg, origin |-> origin,
   raised |-> "DownloadError"]

PlainError(class, msg, origin) ==
  [class |-> class, msg |-> msg, origin |-> origin, raised |-> class]

\* the catch block of handleFile around download and extract
handleFileCatchKeepsClass(e) == e

handleFileCatch(e) ==
  [class |-> "DownloadError", msg |-> "Failed to download the binary file",
   origin |-> e.origin, raised |-> e.raised]

\* the catch block of getNativeBinding around handleFile and require
getNativeBindingCatch(e) ==
  IF e.class = "DownloadError"
    THEN e
    ELSE [class |-> "Error", msg |-> "Failed to use", origin |-> e.origin,
          raised |-> e.raised]

\* the catch block of start() around getNativeBinding: logs and rethrows
startCatch(e) == e

\* ------------------------------------------------------- registry lookup
\* what `await fetch(url)` and `await response.json()` produce: fetch
\* rejects, or a response with a status and a body
Bodies == {"unparseable", "noDist", "noTarball", "tarball"}

\* values of data.dist.tarball, as the path segments of the url; the
\* version is the one the registry calls latest at the time of the query
TarballUrls ==
  {<<"@node-rs", "jieba", "-", "jieba-1.10.0.tgz">>,
   <<"@node-rs", "jieba", "-", "jieba-1.10.3.tgz">>}

NoUrl == <<>>

RegistryOutcomes ==
  {[rejected |-> TRUE, ok |-> FALSE, body |-> "unparseable", tarball |-> NoUrl]}
    \cup [rejected : {FALSE}, ok : BOOLEAN, body : Bodies \ {"tarball"},
          tarball : {NoUrl}]
    \cup [rejected : {FALSE}, ok : BOOLEAN, body : {"tarball"},
          tarball : TarballUrls]

\* the install directory: ctx.baseDir joined with config.nodeBinaryPath
nodeDir == <<"node-rs", "jieba">>

\* the file name the Downloader gives the download: handleFile passes url
\* and directory and no fileName, so the name is taken from the url
deduceFileName(url) == url[Len(url)]

\* the filePath downloader.download() resolves with
filePathOf(directory, url) == directory \o <<deduceFileName(url)>>

\* the first half of handleFile: the error it throws (NoError: none, the
\* Downloader is constructed)
locateChecksDist(r) ==
  IF r.rejected \/ r.body = "unparseable"
    THEN DownloadError("Failed to fetch from URL", "registry")
    ELSE IF r.body \in {"noDist", "noTarball"}
      THEN DownloadError("Failed to get File url", "registry")
      ELSE NoError

locate(r) ==
  IF r.rejected \/ r.body = "unparseable"
    THEN DownloadError("Failed to fetch from URL", "registry")
    ELSE IF r.body = "noDist"
      THEN PlainError("TypeError", "Cannot read properties of undefined", "registry")
      ELSE IF r.body = "noTarball"
        THEN DownloadError("Failed to get File url", "registry")
        ELSE NoError

\* outcomes of downloader.download()
DownloadOutcomes == {"throw", "ABORTED", "COMPLETE"}

\* ------------------------------------------------------------- the state
VARIABLES
  platform,          \* process.platform
  arch,              \* process.arch
  dirExists,         \* nodeDir exists on disk
  archive,           \* the downloaded archive file in nodeDir
  nodeFile,          \* nodeDir/package/<nodeName>.node
  starts,            \* number of start() calls so far
  pc,                \* position of each instance in start()
  probeEnv,          \* what isMusl() finds in this process
  nodeName,          \* getNativeBinding's nodeName
  localFileExisted,  \* getNativeBinding's localFileExisted
  response,          \* what the registry query produced
  downloadStatus,    \* what downloader.download() produced
  filePath,          \* the filePath downloader.download() resolved with
  stream,            \* extract(): which stream event happened
  loadResult,        \* what nativeBinding.load() did
  bound,             \* the entry points are assigned on the service
  err,               \* the error start() rejected with
  afterFailure,      \* start() was called after a failed download or extraction
  hist               \* the operations start() performed, in order

vars ==
  <<platform, arch, probeEnv, dirExists, archive, nodeFile, starts, pc, nodeName,
    localFileExisted, response, downloadStatus, stream, loadResult, bound,
    err, afterFailure, filePath, hist>>

env == <<platform, arch, probeEnv>>
disk == <<dirExists, archive, nodeFile>>

NoResponse == [rejected |-> FALSE, ok |-> FALSE, body |-> NONE, tarball |-> NoUrl]

Init ==
  /\ platform \in Platforms
  /\ arch \in Archs
  /\ probeEnv \in (IF platform = "linux" THEN ProbeEnvs ELSE {NoGlibcEnv})
  /\ nodeFile \in {"absent", "complete"}
  /\ dirExists = (nodeFile # "absent")
  /\ archive = "absent"
  /\ starts = 0
  /\ pc = [i \in Instances |-> "uninitialized"]
  /\ nodeName = [i \in Instances |-> NONE]
  /\ localFileExisted = [i \in Instances |-> FALSE]
  /\ response = [i \in Instances |-> NoResponse]
  /\ downloadStatus = [i \in Instances |-> NONE]
  /\ stream = [i \in Instances |-> NONE]
  /\ loadResult = [i \in Instances |-> NONE]
  /\ bound = [i \in Instances |-> FALSE]
  /\ err = [i \in Instances |-> NoError]
  /\ afterFailure = [i \in Instances |-> FALSE]
  /\ filePath = [i \in Instances |-> NoUrl]
  /\ hist = [i \in Instances |-> <<>>]

\* start() rejects with e
Fail(i, e) ==
  /\ pc' = [pc EXCEPT ![i] = "failed"]
  /\ err' = [err EXCEPT ![i] = e]

Did(i, op) == hist' = [hist EXCEPT ![i] = Append(@, op)]

\* no start() call is in progress, and one has failed in the download or
\* in the extraction
FailedAttemptBefore ==
  /\ \A j \in Instances : pc[j] \in {"uninitialized", "ready", "failed"}
  /\ \E j \in Instances :
       pc[j] = "failed" /\ err[j].origin \in {"download", "extract"}

\* ------------------------------------------------------------ the steps
\* start() is called on instance i: a new attempt; mkdir(nodeDir,
\* {recursive: true}) succeeds
Start(i) ==
  /\ pc[i] \in {"uninitialized", "ready", "failed"}
  /\ starts < MaxStarts
  /\ starts' = starts + 1
  /\ dirExists' = TRUE
  /\ pc' = [pc EXCEPT ![i] = "resolving"]
  /\ nodeName' = [nodeName EXCEPT ![i] = NONE]
  /\ localFileExisted' = [localFileExisted EXCEPT ![i] = FALSE]
  /\ response' = [response EXCEPT ![i] = NoResponse]
  /\ downloadStatus' = [downloadStatus EXCEPT ![i] = NONE]
  /\ stream' = [stream EXCEPT ![i] = NONE]
  /\ loadResult' = [loadResult EXCEPT ![i] = NONE]
  /\ err' = [err EXCEPT ![i] = NoError]
  /\ hist' = [hist EXCEPT ![i] = <<"mkdir">>]
  /\ afterFailure' = [afterFailure EXCEPT ![i] = FailedAttemptBefore]
  /\ filePath' = [filePath EXCEPT ![i] = NoUrl]
  /\ UNCHANGED <<env, archive, nodeFile, bound>>

\* start() is called and mkdir rejects (the directory cannot be created):
\* the rejection leaves start() as it is, before the try block
StartMkdirFails(i) ==
  /\ pc[i] \in {"uninitialized", "ready", "failed"}
  /\ starts < MaxStarts
  /\ ~dirExists
  /\ starts' = starts + 1
  /\ pc' = [pc EXCEPT ![i] = "failed"]
  /\ nodeName' = [nodeName EXCEPT ![i] = NONE]
  /\ localFileExisted' = [localFileExisted EXCEPT ![i] = FALSE]
  /\ response' = [response EXCEPT ![i] = NoResponse]
  /\ downloadStatus' = [downloadStatus EXCEPT ![i] = NONE]
  /\ stream' = [stream EXCEPT ![i] = NONE]
  /\ loadResult' = [loadResult EXCEPT ![i] = NONE]
  /\ err' = [err EXCEPT ![i] = PlainError("Error", "EACCES", "mkdir")]
  /\ hist' = [hist EXCEPT ![i] = <<"mkdir">>]
  /\ afterFailure' = [afterFailure EXCEPT ![i] = FailedAttemptBefore]
  /\ filePath' = [filePath EXCEPT ![i] = NoUrl]
  /\ UNCHANGED <<env, disk, bound>>

\* getNativeBinding, the switch on platform and arch (with the isMusl()
\* call of the linux x64 and arm64 branches)
Resolve(i) ==
  /\ pc[i] = "resolving"
  /\ LET name == resolveNodeName(platform, arch, isMusl(probeEnv))
     IN /\ nodeName' = [nodeName EXCEPT ![i] = name]
        /\ IF name = NONE
             THEN Fail(i, startCatch(UnsupportedError("resolve")))
             ELSE /\ pc' = [pc EXCEPT ![i] = "resolved"]
                  /\ UNCHANGED err
  /\ Did(i, "resolve")
  /\ UNCHANGED <<env, afterFailure, filePath, disk, starts, localFileExisted, response, downloadStatus,
                 stream, loadResult, bound>>

\* getNativeBinding: `if (!localFileExisted) await handleFile(...)`
needsHandleFileAlways(existed) == TRUE

needsHandleFile(existed) == ~existed

\* getNativeBinding: localFileExisted = fs.existsSync(nodePath), and the
\* branch on it
ExistsCheck(i) ==
  /\ pc[i] = "resolved"
  /\ localFileExisted' = [localFileExisted EXCEPT ![i] = (nodeFile # "absent")]
  /\ pc' = [pc EXCEPT ![i] = IF needsHandleFile(nodeFile # "absent") THEN "locating" ELSE "requiring"]
  /\ Did(i, "existsSync")
  /\ UNCHANGED <<env, afterFailure, filePath, disk, starts, nodeName, response, downloadStatus, stream,
                 loadResult, bound, err>>

\* handleFile, first half: the registry query and the tarball url
Locate(i) ==
  /\ pc[i] = "locating"
  /\ \E r \in RegistryOutcomes :
       /\ response' = [response EXCEPT ![i] = r]
       /\ IF locate(r) = NoError
            THEN /\ pc' = [pc EXCEPT ![i] = "downloading"]
                 /\ UNCHANGED err
            ELSE Fail(i, startCatch(getNativeBindingCatch(locate(r))))
  /\ Did(i, "fetch")
  /\ UNCHANGED <<env, afterFailure, filePath, disk, starts, nodeName, localFileExisted,
                 downloadStatus, stream, loadResult, bound>>

\* the error the try block of handleFile raises for a download outcome
\* other than COMPLETE
downloadFailure(s) ==
  IF s = "ABORTED"
    THEN DownloadError("Download was aborted", "download")
    ELSE PlainError("Error", "ECONNRESET", "download")

\* handleFile: `if (downloadStatus === "COMPLETE")`
downloadCompletedAny(s) == TRUE

downloadCompleted(s) == s = "COMPLETE"

\* handleFile, second half: downloader.download(); on COMPLETE extract()
\* is called and its streams are piped
Download(i) ==
  /\ pc[i] = "downloading"
  /\ \E s \in DownloadOutcomes :
       /\ downloadStatus' = [downloadStatus EXCEPT ![i] = s]
       /\ IF s # "throw" /\ downloadCompleted(s)
            THEN /\ archive' = "complete"
                 /\ filePath' = [filePath EXCEPT ![i] =
                                   filePathOf(nodeDir, response[i].tarball)]
                 /\ pc' = [pc EXCEPT ![i] = "extracting"]
                 /\ stream' = [stream EXCEPT ![i] = "flowing"]
                 /\ hist' = [hist EXCEPT ![i] = @ \o <<"download", "extract">>]
                 /\ UNCHANGED err
            ELSE /\ archive' \in {archive, "partial"}
                 /\ Fail(i, startCatch(getNativeBindingCatch(
                              handleFileCatch(downloadFailure(s)))))
                 /\ Did(i, "download")
                 /\ UNCHANGED <<stream, filePath>>
  /\ UNCHANGED <<env, afterFailure, dirExists, nodeFile, starts, nodeName,
                 localFileExisted, response, loadResult, bound>>

\* extract(): the unpack stream writes part of the .node file
ExtractWrite(i) ==
  /\ pc[i] = "extracting"
  /\ stream[i] = "flowing"
  /\ nodeFile # "partial"
  /\ nodeFile' = "partial"
  /\ UNCHANGED <<env, afterFailure, filePath, dirExists, archive, starts, pc, nodeName,
                 localFileExisted, response, downloadStatus, stream, loadResult,
                 bound, err, hist>>

\* extract(): extractStream emits 'finish', the promise resolves and
\* handleFile returns
ExtractFinish(i) ==
  /\ pc[i] = "extracting"
  /\ stream[i] = "flowing"
  /\ stream' = [stream EXCEPT ![i] = "finish"]
  /\ nodeFile' = "complete"
  /\ pc' = [pc EXCEPT ![i] = "requiring"]
  /\ UNCHANGED <<env, afterFailure, filePath, dirExists, archive, starts, nodeName,
                 localFileExisted, response, downloadStatus, loadResult, bound,
                 err, hist>>

\* extract(): extractStream emits 'error', the promise rejects
ExtractError(i) ==
  /\ pc[i] = "extracting"
  /\ stream[i] = "flowing"
  /\ stream' = [stream EXCEPT ![i] = "error"]
  /\ Fail(i, startCatch(getNativeBindingCatch(
               handleFileCatch(PlainError("Error", "TAR_BAD_ARCHIVE", "extract")))))
  /\ UNCHANGED <<env, afterFailure, filePath, disk, starts, nodeName, localFileExisted, response,
                 downloadStatus, loadResult, bound, hist>>

\* the streams of extract() that have no listener of the promise: an
\* 'error' of readStream or gunzip is not forwarded by pipe(), so
\* extractStream neither finishes nor fails
UnlistenedStreams == {"readStream", "gunzip"}

\* extract(): readStream or gunzip emits 'error'
ExtractUpstreamError(i) ==
  /\ pc[i] = "extracting"
  /\ stream[i] = "flowing"
  /\ \E s \in UnlistenedStreams : stream' = [stream EXCEPT ![i] = s]
  /\ UNCHANGED <<env, afterFailure, filePath, disk, starts, pc, nodeName, localFileExisted,
                 response, downloadStatus, loadResult, bound, err, hist>>

\* getNativeBinding: nativeBinding = require(nodePath)
Require(i) ==
  /\ pc[i] = "requiring"
  /\ \/ /\ nodeFile = "complete"
        /\ pc' = [pc EXCEPT ![i] = "loading"]
        /\ UNCHANGED err
     \/ Fail(i, startCatch(getNativeBindingCatch(
                  PlainError("Error", "Cannot load module", "require"))))
  /\ Did(i, "require")
  /\ UNCHANGED <<env, afterFailure, filePath, disk, starts, nodeName, localFileExisted, response,
                 downloadStatus, stream, loadResult, bound>>

\* the test of the catch block around nativeBinding.load()
toleratedAny(message) == TRUE

tolerated(message) == message = AlreadyLoadedMessage

\* start(): the entry points are assigned from nativeBinding, then
\* nativeBinding.load() is called
Load(i) ==
  /\ pc[i] = "loading"
  /\ bound' = [bound EXCEPT ![i] = TRUE]
  /\ \E m \in LoadMessages \cup {"ok"} :
       /\ loadResult' = [loadResult EXCEPT ![i] = m]
       /\ IF m = "ok" \/ tolerated(m)
            THEN /\ pc' = [pc EXCEPT ![i] = "ready"]
                 /\ UNCHANGED err
            ELSE Fail(i, PlainError("Error", m, "load"))
  /\ Did(i, "load")
  /\ UNCHANGED <<env, afterFailure, filePath, disk, starts, nodeName, localFileExisted, response,
                 downloadStatus, stream>>

Next ==
  \E i \in Instances :
    \/ Start(i)
    \/ StartMkdirFails(i)
    \/ Resolve(i)
    \/ ExistsCheck(i)
    \/ Locate(i)
    \/ Download(i)
    \/ ExtractWrite(i)
    \/ ExtractFinish(i)
    \/ ExtractError(i)
    \/ ExtractUpstreamError(i)
    \/ Require(i)
    \/ Load(i)

Spec == Init /\ [][Next]_vars

\* ---------------------------------------------------------- the history
\* instance i performed op in its current start() call
Has(i, op) == \E k \in DOMAIN hist[i] : hist[i][k] = op

\* ------------------------------------------------------------ resolution
\* the (platform, arch) pairs for which an artifact is published
SupportTable ==
  {<<"android", "arm64">>, <<"android", "arm">>,
   <<"win32", "x64">>, <<"win32", "ia32">>, <<"win32", "arm64">>,
   <<"darwin", "x64">>, <<"darwin", "arm64">>,
   <<"freebsd", "x64">>,
   <<"linux", "x64">>, <<"linux", "arm64">>, <<"linux", "arm">>}

\* the libc / ABI suffixes of the published package names
DocumentedSuffixes(p, a) ==
  CASE p = "win32" -> {"-msvc"}
    [] p = "android" /\ a = "arm" -> {"-eabi"}
    [] p = "linux" /\ a = "arm" -> {"-gnueabihf"}
    [] p = "linux" -> {"-gnu", "-musl"}
    [] OTHER -> {""}

DocumentedNames(p, a) ==
  {"jieba." \o p \o "-" \o a \o sfx : sfx \in DocumentedSuffixes(p, a)}

\* C1: once getNativeBinding has run its switch, a (platform, arch) pair of
\* the support table has selected a documented artifact name of that pair -
\* the name the table of the later revision holds, the same for every call -
\* and no UnsupportedError; any other pair has selected no name and start()
\* has failed with UnsupportedError.
C1_Resolution ==
  \A i \in Instances :
    Has(i, "resolve") =>
      IF <<platform, arch>> \in SupportTable
        THEN /\ nodeName[i] \in DocumentedNames(platform, arch)
             /\ nodeName[i] \in {platformArchMap(m)[platform][arch] : m \in BOOLEAN}
             /\ err[i].class # "UnsupportedError"
             /\ \A j \in Instances : Has(j, "resolve") => nodeName[j] = nodeName[i]
        ELSE /\ nodeName[i] = NONE
             /\ \A m \in BOOLEAN : platformArchMap(m)[platform][arch] = NONE
             /\ pc[i] = "failed"
             /\ err[i].class = "UnsupportedError"

\* two calls on a supported pair have selected the same name
C1_Witness ==
  /\ <<platform, arch>> \in SupportTable
  /\ \A i \in Instances : Has(i, "resolve") /\ nodeName[i] # NONE
  /\ nodeName[1] = nodeName[2]

\* C2: on linux x64 and arm64 the selected name is the -musl variant exactly
\* when the prober answers musl - with a report: no glibc version field;
\* without one: the ldd file is unreadable or contains 'musl' - and the -gnu
\* variant otherwise; on linux arm the name is the same whatever the prober
\* would answer.
C2_LibcVariant ==
  \A i \in Instances :
    (Has(i, "resolve") /\ platform = "linux") =>
      LET muslName == "jieba.linux-" \o arch \o "-musl"
          gnuName == "jieba.linux-" \o arch \o "-gnu"
      IN /\ arch \in {"x64", "arm64"} =>
              /\ nodeName[i] \in {muslName, gnuName}
              /\ probeEnv.hasReport =>
                   (nodeName[i] = muslName <=> ~probeEnv.glibcVersionRuntime)
              /\ ~probeEnv.hasReport =>
                   (nodeName[i] = muslName <=>
                      (~probeEnv.lddReadable \/ probeEnv.lddHasMusl))
         /\ arch = "arm" => nodeName[i] = "jieba.linux-arm-gnueabihf"

\* linux x64 without process.report, ldd readable and without 'musl': the
\* -gnu artifact was selected
C2_Witness ==
  /\ platform = "linux" /\ arch = "x64"
  /\ ~probeEnv.hasReport /\ probeEnv.lddReadable /\ ~probeEnv.lddHasMusl
  /\ \E i \in Instances : nodeName[i] = "jieba.linux-x64-gnu"

\* C3: an attempt that found the .node file on disk makes no registry query,
\* no download and no extraction: after the presence check its next and only
\* file operation is require(nodePath).
C3_PresentSkipsNetwork ==
  \A i \in Instances :
    localFileExisted[i] =>
      /\ ~Has(i, "fetch") /\ ~Has(i, "download") /\ ~Has(i, "extract")
      /\ response[i] = NoResponse
      /\ downloadStatus[i] = NONE
      /\ stream[i] = NONE
      /\ pc[i] \in {"requiring", "loading", "ready", "failed"}
      /\ Len(hist[i]) >= 4 =>
           /\ hist[i][3] = "existsSync"
           /\ hist[i][4] = "require"

\* a second start() after one that downloaded and unpacked the artifact
C3_Witness ==
  /\ archive = "complete"
  /\ \E i \in Instances : localFileExisted[i] /\ pc[i] = "ready"

\* ------------------------------------------------------------------ load
\* C4 as stated: a load() failure whose message is "already loaded" is
\* treated as success and start() reaches ready; a failure with any other
\* message fails start().
C4_AsStated ==
  \A i \in Instances :
    Has(i, "load") =>
      /\ loadResult[i] = "already loaded" => pc[i] = "ready"
      /\ loadResult[i] \notin {"ok", "already loaded"} => pc[i] = "failed"

\* C4: a load() failure whose message is exactly 'Jieba was loaded, could
\* not load again' is treated as success and start() reaches ready; a failure
\* with any other message (another case, or the text "already loaded") makes
\* start() reject with that same error, unchanged, and ready is not reached.
C4_LoadSentinel ==
  \A i \in Instances :
    Has(i, "load") =>
      IF loadResult[i] \in {"ok", "Jieba was loaded, could not load again"}
        THEN pc[i] = "ready" /\ err[i] = NoError
        ELSE /\ pc[i] = "failed"
             /\ err[i].origin = "load"
             /\ err[i].msg = loadResult[i]
             /\ err[i].class = err[i].raised

\* the file was on disk and load() threw the sentinel message
C4_Witness ==
  \E i \in Instances :
    /\ loadResult[i] = "Jieba was loaded, could not load again"
    /\ localFileExisted[i]
    /\ pc[i] = "ready"

\* -------------------------------------------------------------- download
\* C5: when download() resolves with a status other than COMPLETE, start()
\* rejects with a DownloadError and that attempt never calls extract(),
\* require() or load().
C5_AbortedDownload ==
  \A i \in Instances :
    downloadStatus[i] = "ABORTED" =>
      /\ pc[i] = "failed"
      /\ err[i].class = "DownloadError"
      /\ err[i].origin = "download"
      /\ ~Has(i, "extract") /\ ~Has(i, "require") /\ ~Has(i, "load")
      /\ stream[i] = NONE

\* download() resolved with ABORTED
C5_Witness ==
  \E i \in Instances :
    /\ downloadStatus[i] = "ABORTED"
    /\ Has(i, "download")
    /\ err[i].raised = "DownloadError"

\* -------------------------------------------------------------- registry
\* the lookup failed as C6 lists it: fetch rejected, the response was not a
\* success, the body was not JSON, or the body has no dist.tarball
RegistryFailed(i) ==
  /\ Has(i, "fetch")
  /\ \/ response[i].rejected
     \/ ~response[i].ok
     \/ response[i].body \in {"unparseable", "noDist", "noTarball"}

\* C6 as stated: every failed lookup fails start() with an error of a kind
\* of its own, neither the kind of a resolution failure nor the kind of a
\* download failure, and the download is never started.
C6_AsStated ==
  \A i \in Instances :
    RegistryFailed(i) =>
      /\ pc[i] = "failed"
      /\ err[i].class \notin {"UnsupportedError", "DownloadError"}
      /\ ~Has(i, "download")

\* C6: when fetch rejects, the body is not JSON, or the body has no
\* dist.tarball - whatever the response status, which is not looked at -
\* start() fails and the download is never started; the error is a
\* DownloadError, the class download failures have, except for a body
\* without a dist object, where the TypeError leaves as a plain Error.  A
\* body with dist.tarball passes the lookup even in a non-success response.
C6_RegistryFailure ==
  \A i \in Instances :
    Has(i, "fetch") =>
      IF response[i].rejected \/ response[i].body # "tarball"
        THEN /\ pc[i] = "failed"
             /\ err[i].origin = "registry"
             /\ ~Has(i, "download") /\ ~Has(i, "extract")
             /\ downloadStatus[i] = NONE /\ stream[i] = NONE
             /\ IF ~response[i].rejected /\ response[i].body = "noDist"
                  THEN /\ err[i].class = "Error"
                       /\ err[i].raised = "TypeError"
                       /\ err[i].msg = "Failed to use"
                  ELSE /\ err[i].class = "DownloadError"
                       /\ err[i].raised = "DownloadError"
        ELSE err[i].origin # "registry"

\* a 200 response whose body has no dist object
C6_Witness ==
  \E i \in Instances :
    /\ response[i] =
         [rejected |-> FALSE, ok |-> TRUE, body |-> "noDist", tarball |-> NoUrl]
    /\ pc[i] = "failed"

\* ---------------------------------------------------- unsupported platform
\* operations of start() that touch the file system or the network
IoOps == {"mkdir", "existsSync", "fetch", "download", "extract", "require"}

\* C7 as stated: an attempt that failed with UnsupportedError has made no
\* file system or network access: no directory created, no presence check,
\* no registry query, no download.
C7_AsStated ==
  \A i \in Instances :
    err[i].class = "UnsupportedError" =>
      \A k \in DOMAIN hist[i] : hist[i][k] \notin IoOps

\* C7: on a (platform, arch) pair outside the support table start() creates
\* the install directory and then fails with UnsupportedError: mkdir is the
\* only file system access of the attempt, and no presence check, registry
\* query, download, extraction or module load is made.
C7_UnsupportedEarly ==
  \A i \in Instances :
    (<<platform, arch>> \notin SupportTable /\ Has(i, "resolve")) =>
      /\ err[i].class = "UnsupportedError"
      /\ pc[i] = "failed"
      /\ hist[i] = <<"mkdir", "resolve">>
      /\ dirExists
      /\ response[i] = NoResponse /\ downloadStatus[i] = NONE
      /\ stream[i] = NONE /\ loadResult[i] = NONE
      /\ ~localFileExisted[i]

\* platform "plan9" in a directory that did not exist
C7_Witness ==
  /\ platform = "plan9"
  /\ archive = "absent" /\ nodeFile = "absent"
  /\ \E i \in Instances : err[i].class = "UnsupportedError" /\ dirExists

\* ---------------------------------------------------------- error kinds
\* C8 as stated: the error that leaves start() has the class it was raised
\* with at its origin, and a failure of the extraction stream does not leave
\* as a DownloadError.
C8_AsStated ==
  \A i \in Instances :
    pc[i] = "failed" =>
      /\ err[i].class = err[i].raised
      /\ err[i].origin = "extract" => err[i].class # "DownloadError"

\* C8: the error that leaves start() has one of three classes, fixed by the
\* step it comes from: resolution - UnsupportedError; registry lookup -
\* DownloadError, or plain Error('Failed to use') for the TypeError of a body
\* without dist; download failure or abort, and extraction stream failure -
\* DownloadError, whatever was raised; require() failure - plain
\* Error('Failed to use'); mkdir and load() failures - the error as raised.
\* The catch block of start() itself changes nothing.
C8_ErrorClasses ==
  \A i \in Instances :
    pc[i] = "failed" =>
      /\ err[i].class \in {"UnsupportedError", "DownloadError", "Error"}
      /\ err[i].origin \in
           {"mkdir", "resolve", "registry", "download", "extract", "require", "load"}
      /\ err[i].origin = "resolve" =>
           err[i].class = "UnsupportedError" /\ err[i].raised = "UnsupportedError"
      /\ err[i].origin = "registry" =>
           IF err[i].raised = "DownloadError"
             THEN err[i].class = "DownloadError"
             ELSE err[i].class = "Error" /\ err[i].msg = "Failed to use"
      /\ err[i].origin \in {"download", "extract"} =>
           /\ err[i].class = "DownloadError"
           /\ err[i].msg = "Failed to download the binary file"
      /\ err[i].origin = "extract" => err[i].raised = "Error"
      /\ err[i].origin = "require" =>
           err[i].class = "Error" /\ err[i].msg = "Failed to use"
      /\ err[i].origin \in {"mkdir", "load"} =>
           err[i].class = err[i].raised /\ err[i].class = "Error"

\* the extraction stream failed and start() rejected with a DownloadError
C8_Witness ==
  \E i \in Instances :
    /\ pc[i] = "failed"
    /\ stream[i] = "error"
    /\ err[i].origin = "extract"
    /\ err[i].class = "DownloadError"

\* ------------------------------------------------------------ one pass
\* position of an operation in the pass
Rank(op) ==
  CASE op = "mkdir" -> 0
    [] op = "resolve" -> 1
    [] op = "existsSync" -> 2
    [] op = "fetch" -> 3
    [] op = "download" -> 4
    [] op = "extract" -> 5
    [] op = "require" -> 6
    [] op = "load" -> 7

\* the operation in which a failure of the given origin is raised
OpOf(origin) == IF origin = "registry" THEN "fetch" ELSE origin

Last(h) == h[Len(h)]

\* the part of C9 that the code keeps: within one start() call the
\* operations run at most once each and in the order mkdir, resolve, presence
\* check, registry query, download, extract, require, load; the registry
\* query, download and extract run exactly when the file was absent; ready is
\* reached only after load(); a failed attempt carries the error, and the
\* failing operation is the last one of the attempt.
PassOrder ==
  \A i \in Instances :
    /\ \A k \in 1..(Len(hist[i]) - 1) : Rank(hist[i][k]) < Rank(hist[i][k + 1])
    /\ pc[i] = "uninitialized" <=> hist[i] = <<>>
    /\ pc[i] = "ready" =>
         /\ Last(hist[i]) = "load"
         /\ Has(i, "require")
         /\ err[i] = NoError
    /\ pc[i] = "loading" => Last(hist[i]) = "require"
    /\ pc[i] = "extracting" => Last(hist[i]) = "extract"
    /\ Has(i, "require") =>
         \A op \in {"fetch", "download", "extract"} :
           Has(i, op) <=> ~localFileExisted[i]
    /\ pc[i] = "failed" =>
         /\ err[i] # NoError
         /\ Last(hist[i]) = OpOf(err[i].origin)
    /\ pc[i] # "failed" => err[i] = NoError

\* a stage of instance i has failed: what the registry, the download, one of
\* the streams of extract() or load() produced is a failure
StageFailed(i) ==
  \/ Has(i, "resolve") /\ nodeName[i] = NONE
  \/ Has(i, "fetch") /\ (response[i].rejected \/ response[i].body # "tarball")
  \/ downloadStatus[i] \in {"throw", "ABORTED"}
  \/ stream[i] \in {"error"} \cup UnlistenedStreams
  \/ loadResult[i] \notin {NONE, "ok", AlreadyLoadedMessage}

\* C9: one start() call is one pass: the stages are entered at most once and
\* in order, ready is reached only from loading, there is no retry, and a
\* failure in any stage moves the attempt to failed, with the error and with
\* no later stage executed.
C9_OnePass ==
  /\ PassOrder
  /\ \A i \in Instances :
       StageFailed(i) => pc[i] = "failed" /\ err[i] # NoError

\* --------------------------------------------------------------- extract
\* C10: extract() has failed once its read stream or its gunzip stream has
\* failed (its promise does not stay pending).
C10_ExtractSettles ==
  \A i \in Instances :
    stream[i] \in UnlistenedStreams => pc[i] = "failed"

\* ------------------------------------------------- retry after a failure
\* C11: a start() call made after a failed download or extraction, with the
\* .node file absent or partially written, does not take the file for the
\* artifact at its presence check: it goes on to the registry query, the
\* download and the extraction, not to require().
C11_RetryOverwritesPartial ==
  [][\A i \in Instances :
       (/\ afterFailure[i]
        /\ nodeFile # "complete"
        /\ pc[i] = "resolved" /\ pc'[i] # "resolved") =>
         (pc'[i] = "locating" /\ ~localFileExisted'[i])]_vars

\* ------------------------------------------------------- the entry points
\* C12: the entry points of the service are bound only in the ready state:
\* in every other state, the failed state after load() threw included, they
\* are unbound.
C12_BoundOnlyWhenReady ==
  \A i \in Instances : pc[i] # "ready" => ~bound[i]

\* ------------------------------------------------------------ concurrency
\* the stages of handleFile
DownloadStages == {"locating", "downloading", "extracting"}

\* C13 as stated: at most one attempt is in the downloading or extracting
\* stage at any time.
C13_AsStated ==
  \A i, j \in Instances :
    (pc[i] \in {"downloading", "extracting"} /\ pc[j] \in {"downloading", "extracting"})
      => i = j

\* C13: the presence check is the only gate: an attempt enters the registry
\* query, download and extraction only if its presence check found no .node
\* file, so an attempt that checks once another one has begun to write the
\* file does not download; attempts that all check before any of them has
\* written the file are not kept apart.
C13_PresenceGate ==
  /\ [](\A i \in Instances : pc[i] \in DownloadStages => ~localFileExisted[i])
  /\ [][\A i \in Instances :
          (pc[i] = "resolved" /\ pc'[i] # "resolved") =>
            (pc'[i] \in DownloadStages <=> nodeFile = "absent")]_vars

\* two attempts on a directory without the artifact, both extracting
C13_Witness ==
  /\ pc[1] = "extracting" /\ pc[2] = "extracting"
  /\ stream[1] = "flowing" /\ stream[2] = "flowing"

\* ------------------------------------------------------ the archive file
\* the directory part of a path
Dirname(path) == SubSeq(path, 1, Len(path) - 1)

\* C14: the archive is written to a fixed file name that does not come from
\* the url: any two downloads have the same local file path, and it lies
\* directly inside the install directory.
C14_FixedFileName ==
  \A i, j \in Instances :
    (filePath[i] # NoUrl /\ filePath[j] # NoUrl) =>
      /\ filePath[i] = filePath[j]
      /\ Dirname(filePath[i]) = nodeDir

====
